---- MODULE Spec2Model ----
(***************************************************************************)
(* Model of decode-serial-csv/decode-serial.py: Channel (change-based      *)
(* event list), ChannelCursor (forward-only sampling pointer) and the      *)
(* recognizeUART generator.                                                *)
(*                                                                         *)
(* Time is measured in integer ticks, TicksPerSecond ticks to the second,  *)
(* chosen so that bitperiod, bitperiod / 2, bitperiod * 1.5 and a tenth of *)
(* a bit period are whole numbers of ticks for every modelled baud rate.   *)
(* Floating-point rounding of the timestamps is outside the model.         *)
(*                                                                         *)
(* The last part of the module models NestedBuilder of                     *)
(* generate-call-sequence/generate-call-sequence.py.                       *)
(***************************************************************************)
EXTENDS Integers, Sequences, FiniteSets, TLC

VARIABLES
  entries,            \* Channel.entries: sequence of <<timestamp, level>>
  frozen,             \* TRUE once entries is a tuple (after finishAdding)
  tailUsed,           \* tailLength of the finishAdding that froze the channel, -1 before
  chanErr,            \* outcome of the last Channel call
  chanCall,           \* last Channel method called, with its arguments
  heap,               \* ChannelCursor objects, by reference
  c,                  \* reference held by the variable c (0: unbound)
  peeker,             \* reference held by the variable peeker (0: unbound)
  lastCall,           \* last cursor method called directly: op, ref, arg, raised
  pc,                 \* position of the recognizeUART generator
  baudrate,           \* recognizeUART arguments
  dataBitsPerFrame,
  omitInvalidFrames,
  bitperiod,          \* locals of recognizeUART
  eventStartsAt,
  data,
  factor,
  x,
  frameIsValid,
  frames,             \* frames yielded so far
  outcome,            \* how the generator ended
  raisedAt,           \* step whose cursor call raised out-of-range
  starts,             \* history: candidate starts, each with its debounce verdict
  input,              \* the waveform description the channel was built from
  actions,            \* NestedBuilder.actions: (ts, (action, label, context))
  stack,              \* NestedBuilder.stack: (startTS, label, context)
  emit,               \* NestedBuilder.emit: (startTS, label, duration)
  currentContext,     \* NestedBuilder.currentContext
  nextAction,         \* number of the action the loop of resolveActions ended in
  resolving           \* "adding", or how main or resolveActions ended

vars == <<entries, frozen, tailUsed, chanErr, chanCall, heap, c, peeker, lastCall, pc,
          baudrate, dataBitsPerFrame, omitInvalidFrames, bitperiod,
          eventStartsAt, data, factor, x, frameIsValid, frames, outcome,
          raisedAt, starts, input, actions, stack, emit, currentContext,
          nextAction, resolving>>

chanVars == <<entries, frozen, tailUsed, chanErr, chanCall>>
cursorVars == <<heap, c, peeker, lastCall>>
builderVars == <<actions, stack, emit, currentContext, nextAction, resolving>>
uartVars == <<pc, baudrate, dataBitsPerFrame, omitInvalidFrames, bitperiod,
              eventStartsAt, data, factor, x, frameIsValid, frames, outcome,
              raisedAt, starts>>

-----------------------------------------------------------------------------
(* Bounds of the model *)

Scale == 1                       \* ticks per twentieth of a second
MaxTs == 2                       \* largest timestamp passed to add in the channel specs
MaxLevel == 2                    \* levels are 0..MaxLevel in the channel and cursor specs
MaxAdds == 3                     \* add calls building a channel for the cursor spec
MaxAdvance == 2                  \* largest advanceBy in the cursor spec
MaxPastEnd == 1                  \* calls made on a cursor whose curIndex passed the end
MaxToggles == 3                  \* level changes in a free-form waveform
MaxFrames == 2                   \* UART frames in an encoded waveform
MaxActions == 3                  \* events read from the CSV file by the call-sequence builder

TicksPerSecond == 20 * Scale

\* tailLength=10 (seconds)
DefaultTailLength == 10

DefaultTail == DefaultTailLength * TicksPerSecond

Levels == 0..MaxLevel

-----------------------------------------------------------------------------
(* Channel *)

Last(s) == s[Len(s)]

\* an add that stores every event, without coalescing equal levels
ChannelAddNoCoalesce(e, isTuple, eventTS, eventValue) ==
  IF Len(e) = 0
    THEN IF isTuple
           THEN [entries |-> e, err |-> "AttributeError"]
           ELSE [entries |-> Append(e, <<eventTS, eventValue>>), err |-> "none"]
    ELSE IF ~(eventTS > Last(e)[1])
           THEN [entries |-> e, err |-> "AssertionError"]
           ELSE IF isTuple
                  THEN [entries |-> e, err |-> "AttributeError"]
                  ELSE [entries |-> Append(e, <<eventTS, eventValue>>), err |-> "none"]

\* an add that compares the level first and checks the timestamp only of an
\* event it stores
ChannelAddLevelFirst(e, isTuple, eventTS, eventValue) ==
  IF Len(e) = 0
    THEN IF isTuple
           THEN [entries |-> e, err |-> "AttributeError"]
           ELSE [entries |-> Append(e, <<eventTS, eventValue>>), err |-> "none"]
    ELSE IF eventValue = Last(e)[2]
           THEN [entries |-> e, err |-> "none"]
           ELSE IF ~(eventTS > Last(e)[1])
                  THEN [entries |-> e, err |-> "AssertionError"]
                  ELSE IF isTuple
                         THEN [entries |-> e, err |-> "AttributeError"]
                         ELSE [entries |-> Append(e, <<eventTS, eventValue>>),
                               err |-> "none"]

\* Channel.add: the entries after the call and the exception raised, if any
\* (isTuple: entries was frozen into a tuple, which has no append)
ChannelAdd(e, isTuple, eventTS, eventValue) ==
  IF Len(e) = 0
    THEN IF isTuple
           THEN [entries |-> e, err |-> "AttributeError"]
           ELSE [entries |-> Append(e, <<eventTS, eventValue>>), err |-> "none"]
    ELSE IF ~(eventTS > Last(e)[1])
           THEN [entries |-> e, err |-> "AssertionError"]
           ELSE IF eventValue # Last(e)[2]
                  THEN IF isTuple
                         THEN [entries |-> e, err |-> "AttributeError"]
                         ELSE [entries |-> Append(e, <<eventTS, eventValue>>),
                               err |-> "none"]
                  ELSE [entries |-> e, err |-> "none"]

\* a finishAdding that freezes the entries without the guard region
ChannelFinishAddingNoTail(e, isTuple, tailLength) ==
  IF tailLength > 0 /\ Len(e) = 0
    THEN [entries |-> e, err |-> "AssertionError", frozen |-> isTuple]
    ELSE [entries |-> e, err |-> "none", frozen |-> TRUE]

\* a finishAdding whose entries stay a list: a later call extends them again
ChannelFinishAddingAgain(e, isTuple, tailLength) ==
  IF tailLength > 0
    THEN IF Len(e) = 0
           THEN [entries |-> e, err |-> "AssertionError", frozen |-> isTuple]
           ELSE [entries |-> Append(e, <<Last(e)[1] + tailLength, Last(e)[2]>>),
                 err |-> "none", frozen |-> TRUE]
    ELSE [entries |-> e, err |-> "none", frozen |-> TRUE]

\* Channel.finishAdding
ChannelFinishAdding(e, isTuple, tailLength) ==
  IF tailLength > 0
    THEN IF Len(e) = 0
           THEN [entries |-> e, err |-> "AssertionError", frozen |-> isTuple]
           ELSE IF isTuple
                  THEN [entries |-> e, err |-> "AttributeError", frozen |-> isTuple]
                  ELSE [entries |-> Append(e, <<Last(e)[1] + tailLength, Last(e)[2]>>),
                        err |-> "none", frozen |-> TRUE]
    ELSE [entries |-> e, err |-> "none", frozen |-> TRUE]

-----------------------------------------------------------------------------
(* ChannelCursor *)

NoCursor == [curIndex |-> 0, curPosition |-> 0, startOfNextEntry |-> 0]

\* curIndex is 0-based as in the source; entries is 1-based
getStartOfNextEntry(e, cur) ==
  IF cur.curIndex < Len(e) - 1
    THEN e[cur.curIndex + 2][1]
    ELSE e[cur.curIndex + 1][1]

\* ChannelCursor.__init__ (the caller has checked len(entries) > 0)
NewCursor(e) ==
  LET c0 == [curIndex |-> 0, curPosition |-> e[1][1], startOfNextEntry |-> 0]
  IN [c0 EXCEPT !.startOfNextEntry = getStartOfNextEntry(e, c0)]

getPosition(cur) == cur.curPosition

isAtEnd(e, cur) == cur.curIndex >= Len(e)

\* getValue; -1 stands for the IndexError of an index past the entries
getValue(e, cur) ==
  IF cur.curIndex < Len(e) THEN e[cur.curIndex + 1][2] ELSE -1

\* an advance that stops before a boundary it lands exactly on
RECURSIVE AdvanceStrict(_, _, _)
AdvanceStrict(e, cur, advanceBy) ==
  IF cur.curPosition + advanceBy > cur.startOfNextEntry
    THEN LET c1 == [cur EXCEPT !.curIndex = @ + 1]
         IN IF isAtEnd(e, c1)
              THEN [cur |-> c1, raised |-> "OutOfRange"]
              ELSE AdvanceStrict(e,
                     [c1 EXCEPT !.startOfNextEntry = getStartOfNextEntry(e, c1)],
                     advanceBy)
    ELSE [cur |-> [cur EXCEPT !.curPosition = @ + advanceBy], raised |-> "no"]

\* ChannelCursor.advance: the cursor after the call and the exception raised
\* ("OutOfRange": ChannelCursorOutOfRangeException, from raiseIfAtEnd)
RECURSIVE Advance(_, _, _)
Advance(e, cur, advanceBy) ==
  IF cur.curPosition + advanceBy >= cur.startOfNextEntry
    THEN LET c1 == [cur EXCEPT !.curIndex = @ + 1]
         IN IF isAtEnd(e, c1)
              THEN [cur |-> c1, raised |-> "OutOfRange"]
              ELSE Advance(e,
                     [c1 EXCEPT !.startOfNextEntry = getStartOfNextEntry(e, c1)],
                     advanceBy)
    ELSE [cur |-> [cur EXCEPT !.curPosition = @ + advanceBy], raised |-> "no"]

\* a scan that stays where it is when the value is already the target
AdvanceUnlessAt(e, cur, targetValue) ==
  IF isAtEnd(e, cur)
    THEN [cur |-> cur, raised |-> "OutOfRange"]
    ELSE IF getValue(e, cur) = targetValue
           THEN [cur |-> cur, raised |-> "no"]
           ELSE Advance(e, cur, cur.startOfNextEntry - cur.curPosition)

\* ChannelCursor.advanceUntilChangeTo
AdvanceUntilChangeTo(e, cur, targetValue) ==
  IF isAtEnd(e, cur)
    THEN [cur |-> cur, raised |-> "OutOfRange"]
    ELSE LET r1 == Advance(e, cur, cur.startOfNextEntry - cur.curPosition)
         IN IF r1.raised # "no"
              THEN r1
              ELSE IF r1.cur.curIndex = cur.curIndex
                     THEN [cur |-> r1.cur, raised |-> "AssertionError"]
                     ELSE IF getValue(e, r1.cur) # targetValue
                            THEN Advance(e, r1.cur,
                                         r1.cur.startOfNextEntry - r1.cur.curPosition)
                            ELSE r1

\* reference of the object a copy is placed in
FreshRef(r) == IF r = 1 THEN 2 ELSE 1

\* binding a second name to the same object instead of copying it
CopyAlias(h, r) == [heap |-> h, ref |-> r]

\* copy.copy(cursor): a new object with the same field values; entries shared
CopyCursor(h, r) == [heap |-> [h EXCEPT ![FreshRef(r)] = h[r]], ref |-> FreshRef(r)]

-----------------------------------------------------------------------------
(* parseSaleaeCSV: the rows are added in order, then the channel is finished *)

RECURSIVE AddAll(_, _)
AddAll(e, samples) ==
  IF samples = <<>>
    THEN [entries |-> e, err |-> "none"]
    ELSE LET r == ChannelAdd(e, FALSE, Head(samples)[1], Head(samples)[2])
         IN IF r.err # "none" THEN r ELSE AddAll(r.entries, Tail(samples))

BuildChannel(samples, tailLength) ==
  LET a == AddAll(<<>>, samples)
  IN IF a.err # "none"
       THEN [entries |-> a.entries, err |-> a.err, frozen |-> FALSE]
       ELSE ChannelFinishAdding(a.entries, FALSE, tailLength)

-----------------------------------------------------------------------------
(* Values of the variables a specification does not use *)

NoCall == [op |-> "none", ref |-> 0, arg |-> 0, raised |-> "no"]
NoChanCall == [op |-> "none", ts |-> 0, value |-> 0]
NoInput == [kind |-> "none", first |-> 0, pre |-> <<>>, bytes |-> <<>>, gap |-> 0,
            tail |-> 0]

\* Python's None, where a label, a context or a key is absent
None == "None"

BuilderIdle ==
  /\ actions = <<>>
  /\ stack = <<>>
  /\ emit = <<>>
  /\ currentContext = None
  /\ nextAction = 0
  /\ resolving = "idle"

CursorIdle ==
  /\ heap = [r \in 1..2 |-> NoCursor]
  /\ c = 0
  /\ peeker = 0
  /\ lastCall = NoCall

UartIdle ==
  /\ pc = "idle"
  /\ baudrate = 1
  /\ dataBitsPerFrame = 8
  /\ omitInvalidFrames = TRUE
  /\ bitperiod = 0
  /\ eventStartsAt = 0
  /\ data = 0
  /\ factor = 1
  /\ x = 0
  /\ frameIsValid = FALSE
  /\ frames = <<>>
  /\ outcome = "none"
  /\ raisedAt = "none"
  /\ starts = <<>>

-----------------------------------------------------------------------------
(* Building a channel: any sequence of add and finishAdding calls *)

TailLengths == {0, 1, DefaultTail}

ChanInit ==
  /\ entries = <<>>
  /\ frozen = FALSE
  /\ tailUsed = -1
  /\ chanErr = "none"
  /\ chanCall = NoChanCall
  /\ CursorIdle
  /\ UartIdle
  /\ input = NoInput
  /\ BuilderIdle

Add ==
  \E eventTS \in 0..MaxTs, eventValue \in Levels :
    LET r == ChannelAdd(entries, frozen, eventTS, eventValue)
    IN /\ entries' = r.entries
       /\ chanErr' = r.err
       /\ chanCall' = [op |-> "add", ts |-> eventTS, value |-> eventValue]
       /\ UNCHANGED <<frozen, tailUsed, cursorVars, uartVars, input, builderVars>>

FinishAdding ==
  \E tailLength \in TailLengths :
    LET r == ChannelFinishAdding(entries, frozen, tailLength)
    IN /\ entries' = r.entries
       /\ chanErr' = r.err
       /\ chanCall' = [op |-> "finishAdding", ts |-> tailLength, value |-> 0]
       /\ frozen' = r.frozen
       /\ tailUsed' = IF ~frozen /\ r.frozen THEN tailLength ELSE tailUsed
       /\ UNCHANGED <<cursorVars, uartVars, input, builderVars>>

ChanNext == Add \/ FinishAdding

SpecChan == ChanInit /\ [][ChanNext]_vars

-----------------------------------------------------------------------------
(* Cursor calls on a finalized channel: on a cursor, then on a copy of it *)

SamplePairs == {<<ts, v>> : ts \in 0..MaxTs, v \in Levels}

SampleSeqs == UNION {[1..n -> SamplePairs] : n \in 1..MaxAdds}

CursorTails == {0, 1}

CursorInit ==
  /\ \E samples \in SampleSeqs, tailLength \in CursorTails :
       LET b == BuildChannel(samples, tailLength)
       IN /\ b.err = "none"
          /\ entries = b.entries
          /\ frozen = b.frozen
          /\ tailUsed = tailLength
  /\ chanErr = "none"
  /\ chanCall = NoChanCall
  /\ heap = [r \in 1..2 |-> IF r = 1 THEN NewCursor(entries) ELSE NoCursor]
  /\ c = 1
  /\ peeker = 0
  /\ lastCall = [op |-> "init", ref |-> 1, arg |-> 0, raised |-> "no"]
  /\ UartIdle
  /\ input = NoInput
  /\ BuilderIdle

\* every raising call on an exhausted cursor increments curIndex once more:
\* the cursor spec stops calling a cursor MaxPastEnd increments past the end
Callable(r) == heap[r].curIndex < Len(entries) + MaxPastEnd

CallAdvance(r, advanceBy) ==
  LET res == Advance(entries, heap[r], advanceBy)
  IN /\ Callable(r)
     /\ heap' = [heap EXCEPT ![r] = res.cur]
     /\ lastCall' = [op |-> "advance", ref |-> r, arg |-> advanceBy,
                     raised |-> res.raised]
     /\ UNCHANGED <<chanVars, c, peeker, uartVars, input, builderVars>>

CallAdvanceUntilChangeTo(r, targetValue) ==
  LET res == AdvanceUntilChangeTo(entries, heap[r], targetValue)
  IN /\ Callable(r)
     /\ heap' = [heap EXCEPT ![r] = res.cur]
     /\ lastCall' = [op |-> "advanceUntilChangeTo", ref |-> r, arg |-> targetValue,
                     raised |-> res.raised]
     /\ UNCHANGED <<chanVars, c, peeker, uartVars, input, builderVars>>

\* the copy is taken once; from then on only the copy is called
CopyOriginal ==
  LET cp == CopyCursor(heap, c)
  IN /\ peeker = 0
     /\ heap' = cp.heap
     /\ peeker' = cp.ref
     /\ lastCall' = [op |-> "copy", ref |-> c, arg |-> 0, raised |-> "no"]
     /\ UNCHANGED <<chanVars, c, uartVars, input, builderVars>>

AdvanceOriginal == peeker = 0 /\ \E d \in 0..MaxAdvance : CallAdvance(c, d)

AdvanceUntilOriginal ==
  peeker = 0 /\ \E v \in Levels : CallAdvanceUntilChangeTo(c, v)

AdvanceCopy == peeker # 0 /\ \E d \in 0..MaxAdvance : CallAdvance(peeker, d)

AdvanceUntilCopy == peeker # 0 /\ \E v \in Levels : CallAdvanceUntilChangeTo(peeker, v)

CursorNext ==
  \/ CopyOriginal
  \/ AdvanceOriginal
  \/ AdvanceUntilOriginal
  \/ AdvanceCopy
  \/ AdvanceUntilCopy

SpecCursor == CursorInit /\ [][CursorNext]_vars

-----------------------------------------------------------------------------
(* recognizeUART *)

\* bitperiod = 1 / float(baudrate), in ticks
BitPeriod(baud) == TicksPerSecond \div baud

\* peeking a whole bit period ahead instead of half of one
PeekWholeBit(bp) == bp

\* bitperiod / 2 of the debounce peek
PeekDistance(bp) == bp \div 2

\* no advance at all: the cursor stays at the midpoint of STOP
NoFurther(bp) == 0

\* bitperiod / 2 of the retry after an unstable START, and of the end of STOP
HalfBit(bp) == bp \div 2

\* an advance of one bit period from the START edge, to the edge of the first
\* data bit
OneBit(bp) == bp

\* bitperiod * 1.5
OneAndHalfBits(bp) == (3 * bp) \div 2

\* a retry that seeks on to the next boundary
NudgeToNextBoundary(e, cur, bp) == Advance(e, cur, cur.startOfNextEntry - cur.curPosition)

\* START wasn't stable: c.advance(bitperiod / 2)
NudgeCursor(e, cur, bp) == Advance(e, cur, HalfBit(bp))

\* a debounce that accepts every candidate
StartAlwaysStable == TRUE

\* peeker.getValue() == 0
StartIsStable == getValue(entries, heap[peeker]) = 0

\* most-significant-bit-first accumulation
AccumulateMsbFirst(d, f, bit) == 2 * d + bit

\* data += factor * bit
AccumulateBit(d, f, bit) == d + f * bit

\* a decision that keeps every frame
OmitsNothing(omit, valid) == FALSE

\* if omitInvalidFrames and not frameIsValid
Omits(omit, valid) == omit /\ ~valid

\* a handler that goes round the loop again instead of leaving it
RetryOnOutOfRange(site) ==
  /\ pc' = "seek"
  /\ outcome' = outcome
  /\ raisedAt' = site

\* the exception leaving the generator instead of ending it
PropagateOutOfRange(site) ==
  /\ pc' = "done"
  /\ outcome' = "OutOfRange"
  /\ raisedAt' = site

\* except ChannelCursorOutOfRangeException: break
ExceptOutOfRange(site) ==
  /\ pc' = "done"
  /\ outcome' = "StopIteration"
  /\ raisedAt' = site

\* an exception raised by a cursor call inside the try block
Raise(exc, site) ==
  IF exc = "OutOfRange"
    THEN ExceptOutOfRange(site)
    ELSE /\ pc' = "done"
         /\ outcome' = exc
         /\ raisedAt' = raisedAt

\* history of the candidate starts: the verdict of the debounce and how the
\* frame ended
NewStart(ts) == [at |-> ts, stable |-> "pending", end |-> "open"]
MarkLast(h, field, value) == [h EXCEPT ![Len(h)] = [@ EXCEPT ![field] = value]]

params == <<baudrate, dataBitsPerFrame, omitInvalidFrames>>

\* c = ChannelCursor(channel); bitperiod = 1 / float(baudrate)
Construct ==
  /\ pc = "new"
  /\ IF Len(entries) > 0
       THEN /\ heap' = [heap EXCEPT ![1] = NewCursor(entries)]
            /\ c' = 1
            /\ bitperiod' = BitPeriod(baudrate)
            /\ pc' = "seek"
            /\ outcome' = "running"
       ELSE /\ pc' = "done"
            /\ outcome' = "AssertionError"
            /\ UNCHANGED <<heap, c, bitperiod>>
  /\ UNCHANGED <<chanVars, peeker, lastCall, params, eventStartsAt, data, factor, x,
                 frameIsValid, frames, raisedAt, starts, input, builderVars>>

\* 1) c.advanceUntilChangeTo(0); eventStartsAt = c.getPosition()
SeekStart ==
  /\ pc = "seek"
  /\ LET r == AdvanceUntilChangeTo(entries, heap[c], 0)
     IN /\ heap' = [heap EXCEPT ![c] = r.cur]
        /\ IF r.raised = "no"
             THEN /\ eventStartsAt' = getPosition(r.cur)
                  /\ starts' = Append(starts, NewStart(getPosition(r.cur)))
                  /\ pc' = "peek"
                  /\ UNCHANGED <<outcome, raisedAt>>
             ELSE /\ Raise(r.raised, "seek")
                  /\ UNCHANGED <<eventStartsAt, starts>>
  /\ UNCHANGED <<chanVars, c, peeker, lastCall, params, bitperiod, data, factor, x,
                 frameIsValid, frames, input, builderVars>>

\* 1b) peeker = copy.copy(c); peeker.advance(bitperiod / 2)
Peek ==
  /\ pc = "peek"
  /\ LET cp == CopyCursor(heap, c)
         r == Advance(entries, cp.heap[cp.ref], PeekDistance(bitperiod))
     IN /\ peeker' = cp.ref
        /\ heap' = [cp.heap EXCEPT ![cp.ref] = r.cur]
        /\ IF r.raised = "no"
             THEN /\ pc' = "check"
                  /\ UNCHANGED <<outcome, raisedAt>>
             ELSE Raise(r.raised, "peek")
  /\ UNCHANGED <<chanVars, c, lastCall, params, bitperiod, eventStartsAt, data, factor,
                 x, frameIsValid, frames, starts, input, builderVars>>

\* START wasn't stable: c.advance(bitperiod / 2); continue
Nudge ==
  /\ pc = "check"
  /\ ~StartIsStable
  /\ LET r == NudgeCursor(entries, heap[c], bitperiod)
     IN /\ heap' = [heap EXCEPT ![c] = r.cur]
        /\ IF r.raised = "no"
             THEN /\ pc' = "seek"
                  /\ UNCHANGED <<outcome, raisedAt>>
             ELSE Raise(r.raised, "nudge")
  /\ starts' = MarkLast(starts, "stable", "no")
  /\ UNCHANGED <<chanVars, c, peeker, lastCall, params, bitperiod, eventStartsAt, data,
                 factor, x, frameIsValid, frames, input, builderVars>>

\* 2) START is stable: c.advance(bitperiod * 1.5); data = 0; factor = 1
ConfirmStart ==
  /\ pc = "check"
  /\ StartIsStable
  /\ LET r == Advance(entries, heap[c], OneAndHalfBits(bitperiod))
     IN /\ heap' = [heap EXCEPT ![c] = r.cur]
        /\ IF r.raised = "no"
             THEN /\ pc' = "sample"
                  /\ data' = 0
                  /\ factor' = 1
                  /\ x' = 0
                  /\ starts' = MarkLast(starts, "stable", "yes")
                  /\ UNCHANGED <<outcome, raisedAt>>
             ELSE /\ Raise(r.raised, "confirm")
                  /\ starts' = MarkLast(MarkLast(starts, "stable", "yes"),
                                        "end", "raised")
                  /\ UNCHANGED <<data, factor, x>>
  /\ UNCHANGED <<chanVars, c, peeker, lastCall, params, bitperiod, eventStartsAt,
                 frameIsValid, frames, input, builderVars>>

\* 3) one round of: bit = c.getValue(); data += factor * bit;
\*    c.advance(bitperiod); factor *= 2
SampleBit ==
  /\ pc = "sample"
  /\ LET bit == getValue(entries, heap[c])
         r == Advance(entries, heap[c], bitperiod)
     IN /\ data' = AccumulateBit(data, factor, bit)
        /\ heap' = [heap EXCEPT ![c] = r.cur]
        /\ IF r.raised = "no"
             THEN /\ factor' = factor * 2
                  /\ x' = x + 1
                  /\ pc' = IF x + 1 < dataBitsPerFrame THEN "sample" ELSE "stop"
                  /\ UNCHANGED <<outcome, raisedAt, starts>>
             ELSE /\ Raise(r.raised, "sample")
                  /\ starts' = MarkLast(starts, "end", "raised")
                  /\ UNCHANGED <<factor, x>>
  /\ UNCHANGED <<chanVars, c, peeker, lastCall, params, bitperiod, eventStartsAt,
                 frameIsValid, frames, input, builderVars>>

\* 4) frameIsValid = (c.getValue() == 1); 5) c.advance(bitperiod / 2)
StopBit ==
  /\ pc = "stop"
  /\ frameIsValid' = (getValue(entries, heap[c]) = 1)
  /\ LET r == Advance(entries, heap[c], HalfBit(bitperiod))
     IN /\ heap' = [heap EXCEPT ![c] = r.cur]
        /\ IF r.raised = "no"
             THEN /\ pc' = "emit"
                  /\ UNCHANGED <<outcome, raisedAt, starts>>
             ELSE /\ Raise(r.raised, "stop")
                  /\ starts' = MarkLast(starts, "end", "raised")
  /\ UNCHANGED <<chanVars, c, peeker, lastCall, params, bitperiod, eventStartsAt, data,
                 factor, x, frames, input, builderVars>>

\* if omitInvalidFrames and not frameIsValid: continue
OmitFrame ==
  /\ pc = "emit"
  /\ Omits(omitInvalidFrames, frameIsValid)
  /\ pc' = "seek"
  /\ starts' = MarkLast(starts, "end", "omitted")
  /\ UNCHANGED <<chanVars, cursorVars, params, bitperiod, eventStartsAt, data, factor,
                 x, frameIsValid, frames, outcome, raisedAt, input, builderVars>>

\* yield (eventStartsAt, data, frameIsValid)
YieldFrame ==
  /\ pc = "emit"
  /\ ~Omits(omitInvalidFrames, frameIsValid)
  /\ frames' = Append(frames, <<eventStartsAt, data, frameIsValid>>)
  /\ pc' = "seek"
  /\ starts' = MarkLast(starts, "end", "yielded")
  /\ UNCHANGED <<chanVars, cursorVars, params, bitperiod, eventStartsAt, data, factor,
                 x, frameIsValid, outcome, raisedAt, input, builderVars>>

UartNext ==
  \/ Construct
  \/ SeekStart
  \/ Peek
  \/ Nudge
  \/ ConfirmStart
  \/ SampleBit
  \/ StopBit
  \/ OmitFrame
  \/ YieldFrame

-----------------------------------------------------------------------------
(* recognizeUART consumed to its end, as a function of its arguments: the      *)
(* frames yielded and the cursor c as the generator leaves it                  *)

\* the for loop of step 3, from round k: the data collected and the cursor
RECURSIVE CollectBits(_, _, _, _, _, _, _)
CollectBits(e, cur, bp, bits, k, d, f) ==
  IF k = bits
    THEN [cur |-> cur, data |-> d, raised |-> "no"]
    ELSE LET r == Advance(e, cur, bp)
         IN IF r.raised # "no"
              THEN [cur |-> r.cur, data |-> d, raised |-> r.raised]
              ELSE CollectBits(e, r.cur, bp, bits, k + 1,
                               AccumulateBit(d, f, getValue(e, cur)), 2 * f)

\* the while loop from the cursor cur on; any exception ends the frames
RECURSIVE RecognizeFrom(_, _, _, _, _)
RecognizeFrom(e, cur, bp, bits, omit) ==
  LET seek == AdvanceUntilChangeTo(e, cur, 0)
      peek == Advance(e, seek.cur, PeekDistance(bp))
      nudge == NudgeCursor(e, seek.cur, bp)
      first == Advance(e, seek.cur, OneAndHalfBits(bp))
      col == CollectBits(e, first.cur, bp, bits, 0, 0, 1)
      valid == getValue(e, col.cur) = 1
      stop == Advance(e, col.cur, HalfBit(bp))
      rest == RecognizeFrom(e, stop.cur, bp, bits, omit)
  IN IF seek.raised # "no" THEN [frames |-> <<>>, cur |-> seek.cur]
     ELSE IF peek.raised # "no" THEN [frames |-> <<>>, cur |-> seek.cur]
     ELSE IF getValue(e, peek.cur) # 0
       THEN IF nudge.raised # "no"
              THEN [frames |-> <<>>, cur |-> nudge.cur]
              ELSE RecognizeFrom(e, nudge.cur, bp, bits, omit)
     ELSE IF first.raised # "no" THEN [frames |-> <<>>, cur |-> first.cur]
     ELSE IF col.raised # "no" THEN [frames |-> <<>>, cur |-> col.cur]
     ELSE IF stop.raised # "no" THEN [frames |-> <<>>, cur |-> stop.cur]
     ELSE IF Omits(omit, valid) THEN rest
     ELSE [frames |-> <<<<getPosition(seek.cur), col.data, valid>>>> \o rest.frames,
           cur |-> rest.cur]

Recognize(e, baud, bits, omit) ==
  RecognizeFrom(e, NewCursor(e), BitPeriod(baud), bits, omit)

-----------------------------------------------------------------------------
(* The waveforms recognizeUART is run on *)

RECURSIVE Sum(_)
Sum(durs) == IF durs = <<>> THEN 0 ELSE Head(durs) + Sum(Tail(durs))

\* the level toggles after each duration
RECURSIVE ToggleSamples(_, _, _)
ToggleSamples(t, level, durs) ==
  IF durs = <<>>
    THEN <<>>
    ELSE <<<<t + Head(durs), 1 - level>>>>
           \o ToggleSamples(t + Head(durs), 1 - level, Tail(durs))

RECURSIVE Pow2(_)
Pow2(k) == IF k = 0 THEN 1 ELSE 2 * Pow2(k - 1)

Bit(b, k) == (b \div Pow2(k)) % 2

\* one UART frame from time s: START at 0, the data bits least-significant
\* first, STOP at 1, every bit bp ticks long
FrameSamples(s, b, bp, bits) ==
  [i \in 1..(bits + 2) |->
     IF i = 1 THEN <<s, 0>>
     ELSE IF i = bits + 2 THEN <<s + (bits + 1) * bp, 1>>
     ELSE <<s + (i - 1) * bp, Bit(b, i - 2)>>]

RECURSIVE EncodeFrames(_, _, _, _, _)
EncodeFrames(s, bytes, gap, bp, bits) ==
  IF bytes = <<>>
    THEN <<>>
    ELSE FrameSamples(s, Head(bytes), bp, bits)
           \o EncodeFrames(s + (bits + 2) * bp + gap, Tail(bytes), gap, bp, bits)

\* the rows of the capture: the line starts at in.first at time 0, toggles
\* after each duration of in.pre, and the frames of in.bytes begin where the
\* last duration of in.pre ends
WaveSamples(in, bp, bits) ==
  IF in.kind = "empty"
    THEN <<>>
    ELSE LET tog == IF in.bytes = <<>>
                      THEN in.pre
                      ELSE SubSeq(in.pre, 1, Len(in.pre) - 1)
         IN <<<<0, in.first>>>>
              \o ToggleSamples(0, in.first, tog)
              \o EncodeFrames(Sum(in.pre), in.bytes, in.gap, bp, bits)

SeqsUpTo(S, lo, hi) == UNION {[1..n -> S] : n \in lo..hi}

Bauds == {1, 2}
BitsSet == {2, 8}
Durs == {Scale, 2 * Scale, 5 * Scale, 30 * Scale}
Lead == 5 * Scale
ByteSet == {0, 1, 65, 128, 255}
Gaps(bp) == {0, 1, bp \div 2, bp}
GlitchDistances(bp) == {bp \div 5, (bp \div 2) - 1, bp \div 2, (bp \div 2) + 1, bp, 2 * bp}

\* tail lengths of the free-form waveforms: the default, and shorter ones that
\* end the data inside the debounce, the first data bit or a later bit
ToggleTails == {Scale, 12 * Scale, 30 * Scale, DefaultTail}

ToggleInputs ==
  {[kind |-> "toggles", first |-> f, pre |-> p, bytes |-> <<>>, gap |-> 0,
    tail |-> t] : f \in {0, 1}, p \in SeqsUpTo(Durs, 0, MaxToggles), t \in ToggleTails}

FrameInputs(bp) ==
  {[kind |-> "frames", first |-> 1, pre |-> <<Lead>>, bytes |-> <<b>>, gap |-> 0,
    tail |-> DefaultTail] : b \in 0..255}
  \cup
  {[kind |-> "frames", first |-> 1, pre |-> <<Lead>>, bytes |-> bs, gap |-> g,
    tail |-> DefaultTail] : bs \in SeqsUpTo(ByteSet, 2, MaxFrames), g \in Gaps(bp)}

\* a low pulse of a tenth of a bit period, d ticks before the START edge
GlitchInputs(bp) ==
  {[kind |-> "glitch", first |-> 1,
    pre |-> <<Lead, bp \div 10, d - (bp \div 10)>>, bytes |-> <<b>>, gap |-> 0,
    tail |-> DefaultTail] : b \in ByteSet, d \in GlitchDistances(bp)}

\* frames sent by a clock that runs fast: each START edge comes a quarter of
\* a bit period before the STOP bit of the frame before it ends
EarlyInputs(bp) ==
  {[kind |-> "early", first |-> 1, pre |-> <<Lead>>, bytes |-> bs,
    gap |-> 0 - (bp \div 4), tail |-> DefaultTail] : bs \in SeqsUpTo(ByteSet, 2, MaxFrames)}

EmptyInputs ==
  {[kind |-> "empty", first |-> 1, pre |-> <<>>, bytes |-> <<>>, gap |-> 0, tail |-> 0]}

Inputs(bp, bits) ==
  ToggleInputs \cup EmptyInputs
    \cup (IF bits = 8
            THEN FrameInputs(bp) \cup GlitchInputs(bp) \cup EarlyInputs(bp)
            ELSE {})

UartInit ==
  /\ \E baud \in Bauds, bits \in BitsSet, omit \in BOOLEAN :
       \E in \in Inputs(BitPeriod(baud), bits) :
         LET b == BuildChannel(WaveSamples(in, BitPeriod(baud), bits), in.tail)
         IN /\ b.err = "none"
            /\ entries = b.entries
            /\ frozen = b.frozen
            /\ tailUsed = in.tail
            /\ input = in
            /\ baudrate = baud
            /\ dataBitsPerFrame = bits
            /\ omitInvalidFrames = omit
  /\ chanErr = "none"
  /\ chanCall = NoChanCall
  /\ CursorIdle
  /\ pc = "new"
  /\ bitperiod = 0
  /\ eventStartsAt = 0
  /\ data = 0
  /\ factor = 1
  /\ x = 0
  /\ frameIsValid = FALSE
  /\ frames = <<>>
  /\ outcome = "none"
  /\ raisedAt = "none"
  /\ starts = <<>>
  /\ BuilderIdle

SpecUART == UartInit /\ [][UartNext]_vars

\* the consumer keeps asking for the next frame, and the generator keeps
\* running between two yields
SpecUARTConsumed == SpecUART /\ WF_vars(UartNext)

-----------------------------------------------------------------------------
(* Properties *)

\* level of the waveform at time t: the latest entry at or before t
LevelAt(t) ==
  LET at == {i \in 1..Len(entries) : entries[i][1] <= t}
  IN entries[CHOOSE i \in at : \A j \in at : j <= i][2]

StrictlyIncreasing(e) == \A i \in 1..(Len(e) - 1) : e[i][1] < e[i + 1][1]

FrameLength == (dataBitsPerFrame + 2) * BitPeriod(baudrate)

\* the frames an encoded waveform carries
ExpectedFrames ==
  [i \in 1..Len(input.bytes) |->
     <<Sum(input.pre) + (i - 1) * (FrameLength + input.gap), input.bytes[i], TRUE>>]

\* C1: decoding a waveform that encodes a byte sequence as 8-bit UART frames,
\* with any idle gap of zero or more between the frames, yields exactly those
\* bytes, in order, each valid.
C1_RoundTrip ==
  (input.kind = "frames" /\ pc = "done") => frames = ExpectedFrames

\* the round trip for frames separated by an idle gap longer than zero
RoundTripWithIdleGap ==
  (input.kind = "frames" /\ pc = "done" /\ (Len(input.bytes) > 1 => input.gap > 0))
    => (frames = ExpectedFrames /\ outcome = "StopIteration")

\* C2: advanceUntilChangeTo(v) raises out-of-range or returns with
\* getValue() = v, for channels whose levels are any small non-negative integers.
C2_ReturnsAtTarget ==
  (lastCall.op = "advanceUntilChangeTo" /\ lastCall.raised = "no")
    => getValue(entries, heap[lastCall.ref]) = lastCall.arg

\* the same for a channel with the two levels 0 and 1 only
ReturnsAtTargetBinary ==
  (/\ lastCall.op = "advanceUntilChangeTo"
   /\ lastCall.raised = "no"
   /\ lastCall.arg \in {0, 1}
   /\ \A i \in 1..Len(entries) : entries[i][2] \in {0, 1})
    => getValue(entries, heap[lastCall.ref]) = lastCall.arg

FinishedWithDefaultTail == frozen /\ tailUsed = DefaultTail

\* C3 as stated: after finishAdding with the default tail, timestamps strictly
\* increase and no two consecutive entries have equal levels, the last real
\* entry and the tail entry included.
C3_NoEqualNeighbours ==
  FinishedWithDefaultTail =>
    /\ StrictlyIncreasing(entries)
    /\ \A i \in 1..(Len(entries) - 1) : entries[i][2] # entries[i + 1][2]

\* C3: after finishAdding with the default tail, timestamps strictly increase
\* and no two consecutive entries have equal levels, except the last real
\* entry and the tail entry, which always have equal levels.
C3_NoEqualNeighboursButTail ==
  FinishedWithDefaultTail =>
    /\ StrictlyIncreasing(entries)
    /\ \A i \in 1..(Len(entries) - 2) : entries[i][2] # entries[i + 1][2]
    /\ Len(entries) >= 2
    /\ entries[Len(entries) - 1][2] = entries[Len(entries)][2]
    /\ entries[Len(entries)][1] = entries[Len(entries) - 1][1] + DefaultTail

C3_Witness == FinishedWithDefaultTail /\ Len(entries) >= 3

\* entry i is a change to level 0 whose low pulse is shorter than half a bit period
ShortLowPulse(i) ==
  /\ i \in 2..(Len(entries) - 1)
  /\ entries[i][2] = 0
  /\ entries[i + 1][2] = 1
  /\ entries[i + 1][1] < entries[i][1] + HalfBit(BitPeriod(baudrate))

NoFrameStartsAt(ts) == \A k \in 1..Len(frames) : frames[k][1] # ts

\* C4 as stated: no frame starts at a change to 0 whose low pulse is shorter
\* than half a bit period, whatever the waveform does after the pulse.
C4_ShortPulseNeverFramed ==
  \A i \in 1..Len(entries) : ShortLowPulse(i) => NoFrameStartsAt(entries[i][1])

\* C4: no frame starts at a change to 0 whose low pulse is shorter than half a
\* bit period, provided the line is not at 0 again half a bit period after
\* the change.
C4_ShortPulseNotLowAgainNeverFramed ==
  \A i \in 1..Len(entries) :
    (ShortLowPulse(i) /\ LevelAt(entries[i][1] + HalfBit(BitPeriod(baudrate))) # 0)
      => NoFrameStartsAt(entries[i][1])

C4_Witness ==
  /\ pc = "done"
  /\ frames # <<>>
  /\ \E i \in 1..Len(entries), k \in 1..Len(starts) :
       /\ ShortLowPulse(i)
       /\ LevelAt(entries[i][1] + HalfBit(BitPeriod(baudrate))) # 0
       /\ starts[k].at = entries[i][1]
       /\ starts[k].stable = "no"

\* distance from the falling edge of the glitch to the START edge of the frame
GlitchDistance == Sum(input.pre) - Lead

\* C5 as stated: a low pulse of a tenth of a bit period before a real frame
\* yields no frame, and the real frame is decoded with its byte, valid, at the
\* timestamp of its START edge, for every distance between glitch and START.
C5_GlitchSkipped ==
  (input.kind = "glitch" /\ pc = "done") => frames = ExpectedFrames

\* C5: the same, for every distance from the falling edge of the glitch to the
\* START edge that is longer than half a bit period.
C5_GlitchSkippedBeyondHalfBit ==
  (/\ input.kind = "glitch"
   /\ pc = "done"
   /\ GlitchDistance > HalfBit(BitPeriod(baudrate)))
    => frames = ExpectedFrames

C5_Witness ==
  /\ input.kind = "glitch"
  /\ pc = "done"
  /\ GlitchDistance = HalfBit(BitPeriod(baudrate)) + 1
  /\ input.bytes = <<65>>
  /\ frames = <<<<Lead + GlitchDistance, 65, TRUE>>>>
  /\ starts[1] = [at |-> Lead, stable |-> "no", end |-> "open"]

\* C6: an out-of-range condition raised by any cursor call of recognizeUART
\* ends the frame sequence normally; it never leaves the generator.
C6_OutOfRangeEndsSequence ==
  /\ outcome # "OutOfRange"
  /\ raisedAt # "none" => (pc = "done" /\ outcome = "StopIteration")

C6_Witness ==
  /\ raisedAt = "sample"
  /\ outcome = "StopIteration"
  /\ starts # <<>>
  /\ Last(starts).end = "raised"

\* every cursor call of the loop can be the one that raises
RaisedAtSeek == raisedAt = "seek"
RaisedAtPeek == raisedAt = "peek"
RaisedAtConfirm == raisedAt = "confirm"
RaisedAtStop == raisedAt = "stop"

\* the retry advance repeats the advance the peek made from the same position
NudgeNeverRaises == raisedAt # "nudge"

\* a finalized channel with a single real entry and the tail guard
SingleRealEntry == FinishedWithDefaultTail /\ Len(entries) = 2

\* C7 as stated: on a channel with fewer than one real transition the
\* out-of-range condition of the first advanceUntilChangeTo reaches the caller.
C7_FirstSeekPropagates ==
  (SingleRealEntry /\ pc = "done") => outcome = "OutOfRange"

\* C7: on a channel with fewer than one real transition the out-of-range
\* condition of the first advanceUntilChangeTo is caught and the call yields
\* an empty frame sequence.
C7_FirstSeekEndsEmpty ==
  (SingleRealEntry /\ pc = "done")
    => (outcome = "StopIteration" /\ raisedAt = "seek" /\ frames = <<>>)

C7_Witness == SingleRealEntry /\ pc = "done" /\ raisedAt = "seek"

\* the real data ends before the frame that starts at ts does
Truncated(ts) == entries[Len(entries) - 1][1] < ts + FrameLength

StopMidpoint(ts) ==
  ts + OneAndHalfBits(BitPeriod(baudrate)) + dataBitsPerFrame * BitPeriod(baudrate)

\* the frame of a confirmed START is sampled to its end on the tail guard: no
\* out-of-range, and it is yielded with valid = (level at the middle of STOP
\* is 1), or skipped when invalid frames are omitted and that level is not 1
CompletedOnTail(h) ==
  /\ h.end # "raised"
  /\ h.end = "yielded" =>
       /\ \E k \in 1..Len(frames) :
            /\ frames[k][1] = h.at
            /\ frames[k][3] = (LevelAt(StopMidpoint(h.at)) = 1)
       /\ ~(omitInvalidFrames /\ LevelAt(StopMidpoint(h.at)) # 1)
  /\ h.end = "omitted" => (omitInvalidFrames /\ LevelAt(StopMidpoint(h.at)) # 1)

\* C8 as stated: for every baud rate and bits-per-frame, a frame whose START
\* is confirmed before the real data ends is completed on the tail guard.
C8_TailGuardCompletesFrame ==
  FinishedWithDefaultTail =>
    \A k \in 1..Len(starts) :
      (starts[k].stable = "yes" /\ Truncated(starts[k].at))
        => CompletedOnTail(starts[k])

\* C8: the same, for every baud rate and bits-per-frame whose frame
\* (bits + 2 bit periods) is shorter than the tail length.
C8_TailGuardCompletesShortFrame ==
  (FinishedWithDefaultTail /\ FrameLength < DefaultTail) =>
    \A k \in 1..Len(starts) :
      (starts[k].stable = "yes" /\ Truncated(starts[k].at))
        => CompletedOnTail(starts[k])

C8_Witness ==
  /\ FinishedWithDefaultTail
  /\ FrameLength < DefaultTail
  /\ dataBitsPerFrame = 8
  /\ \E k \in 1..Len(starts) :
       /\ starts[k].stable = "yes"
       /\ entries[Len(entries) - 1][1] = starts[k].at
       /\ starts[k].end = "yielded"

\* C9: advancing a copy of a cursor, also when the call raises, leaves the
\* original cursor and the shared entries unchanged.
C9_CloneIndependence ==
  [][(AdvanceCopy \/ AdvanceUntilCopy) => (heap'[c] = heap[c] /\ entries' = entries)]_vars

C9_Witness ==
  /\ peeker # 0
  /\ lastCall.ref = peeker
  /\ lastCall.raised = "OutOfRange"
  /\ heap[c].curIndex = 0
  /\ heap[peeker].curIndex = Len(entries)
  /\ Len(entries) >= 3

\* the channel of the scenario: idle at 1, START, data bits 1,0,0,0,0,0,1,0,
\* STOP, then the tail guard
ScenarioAEntries ==
  LET bp == BitPeriod(baudrate)
  IN <<<<0, 1>>, <<Lead, 0>>, <<Lead + bp, 1>>, <<Lead + 2 * bp, 0>>,
       <<Lead + 7 * bp, 1>>, <<Lead + 8 * bp, 0>>, <<Lead + 9 * bp, 1>>,
       <<Lead + 9 * bp + DefaultTail, 1>>>>

ScenarioA == input.kind = "frames" /\ input.bytes = <<65>>

\* C10: the channel that carries the single byte 'A' decodes, with 8 data
\* bits, to exactly one frame (timestamp of the START edge, 65, true), and the
\* sequence then ends.
C10_ScenarioA ==
  ScenarioA =>
    /\ entries = ScenarioAEntries
    /\ frames \in {<<>>, <<<<Lead, 65, TRUE>>>>}
    /\ pc = "done" => (frames = <<<<Lead, 65, TRUE>>>> /\ outcome = "StopIteration")

C10_Witness ==
  /\ ScenarioA
  /\ entries = ScenarioAEntries
  /\ pc = "done"
  /\ frames = <<<<Lead, 65, TRUE>>>>

-----------------------------------------------------------------------------
(* Channel contracts *)

\* C11: finishAdding on a channel with zero entries fails for every tail
\* length, tail length 0 included: an empty channel never becomes a finalized
\* channel.
C11_EmptyNeverFinalized == frozen => Len(entries) > 0

\* finishAdding with a tail length above zero on an empty channel fails and
\* leaves the channel unfinished
EmptyFinishWithTailFails ==
  \A tailLength \in TailLengths \ {0} :
    LET r == ChannelFinishAdding(<<>>, FALSE, tailLength)
    IN r.err = "AssertionError" /\ ~r.frozen /\ r.entries = <<>>

\* an add call on a non-empty channel that is not finalized, with a timestamp
\* that is not greater than the last stored one
AddNotLater ==
  /\ chanCall'.op = "add"
  /\ ~frozen
  /\ Len(entries) > 0
  /\ chanCall'.ts <= Last(entries)[1]

\* C12: add on a non-empty channel that is not finalized fails with an
\* assertion whenever the timestamp is not strictly greater than the last
\* stored timestamp, whether or not the level equals the last stored level, and
\* the stored entries are unchanged by the failed call.
C12_AddNotLaterFails ==
  [][AddNotLater => (chanErr' = "AssertionError" /\ entries' = entries)]_vars

\* an add that failed although its level equals the last stored level
C12_Witness ==
  /\ chanCall.op = "add"
  /\ chanErr = "AssertionError"
  /\ ~frozen
  /\ Len(entries) = 2
  /\ chanCall.ts = Last(entries)[1]
  /\ chanCall.value = Last(entries)[2]

-----------------------------------------------------------------------------
(* Invalid frames *)

\* a candidate start whose frame went through steps 2 to 5 without running
\* out of data: its sampling completed
SamplingCompleted(h) == h.end \in {"yielded", "omitted"}

WasYielded(h) == h.end = "yielded"

FrameIsValid(f) == f[3]

\* the frames report, in order and once each, the candidate starts of hs; the
\* valid flag is the level at the midpoint of the STOP bit being 1
FramesReport(hs) ==
  /\ Len(frames) = Len(hs)
  /\ \A k \in 1..Len(hs) :
       /\ frames[k][1] = hs[k].at
       /\ frames[k][3] = (LevelAt(StopMidpoint(hs[k].at)) = 1)

\* the generator run to its end agrees with Recognize on the frames and on
\* the cursor
RunIsRecognize ==
  (pc = "done" /\ outcome = "StopIteration") =>
    LET r == Recognize(entries, baudrate, dataBitsPerFrame, omitInvalidFrames)
    IN frames = r.frames /\ heap[c] = r.cur

InvalidFrameYielded ==
  /\ pc = "done"
  /\ ~omitInvalidFrames
  /\ \E k \in 1..Len(frames) : ~frames[k][3]

-----------------------------------------------------------------------------
(* Termination *)

\* an iteration of the while loop begins with the seek of step 1: it raises,
\* or the cursor index grows
IterationAdvancesIndex ==
  SeekStart => (pc' = "done" \/ heap'[c].curIndex > heap[c].curIndex)

\* no step of the loop moves the cursor index back
IndexNeverDecreases == (c # 0 /\ c' = c) => heap'[c].curIndex >= heap[c].curIndex

\* C14: recognizeUART consumed to its end yields finitely many frames and
\* eventually ends: every iteration of its loop raises out-of-range or
\* strictly increases the cursor index, which never exceeds the number of
\* entries.
C14_Terminates ==
  /\ <>(pc = "done")
  /\ [][IterationAdvancesIndex /\ IndexNeverDecreases]_vars
  /\ [](c # 0 => heap[c].curIndex <= Len(entries))
  /\ [](Len(frames) <= Len(entries))

\* a run that went round the loop several times and then ended
C14_Witness ==
  /\ pc = "done"
  /\ outcome = "StopIteration"
  /\ Len(starts) >= 2
  /\ Len(frames) >= 1
  /\ heap[c].curIndex = Len(entries)

-----------------------------------------------------------------------------
(* Cursor invariants *)

\* the position lies in the interval of the index: at or after the entry of
\* the index and before the next entry, when there is one (curIndex is 0-based)
WithinInterval(e, cur) ==
  /\ cur.curIndex < Len(e)
  /\ e[cur.curIndex + 1][1] <= cur.curPosition
  /\ cur.curIndex + 1 < Len(e) => cur.curPosition < e[cur.curIndex + 2][1]

\* getValue() is the level of the latest entry at or before the position
ValueIsLevelAtPosition(e, cur) == getValue(e, cur) = LevelAt(cur.curPosition)

\* neither field of a bound cursor moves back
CursorMovesForward ==
  \A r \in 1..2 :
    (r = c \/ r = peeker) =>
      /\ heap'[r].curPosition >= heap[r].curPosition
      /\ heap'[r].curIndex >= heap[r].curIndex

\* C15: after construction and after every advance(d), d >= 0, or
\* advanceUntilChangeTo call that returns without raising, the position lies
\* within the interval of the index, so that getValue() is the level of the
\* latest entry at or before the position; position and index never decrease.
C15_CursorInvariant ==
  /\ []((lastCall.op \in {"init", "advance", "advanceUntilChangeTo"}
           /\ lastCall.raised = "no") =>
          /\ WithinInterval(entries, heap[lastCall.ref])
          /\ ValueIsLevelAtPosition(entries, heap[lastCall.ref]))
  /\ [][CursorMovesForward]_vars

\* the same for the calls on a cursor that has not run off the end before
CursorInvariantBeforeEnd ==
  /\ [](\A r \in 1..2 :
          ((r = c \/ r = peeker) /\ ~isAtEnd(entries, heap[r])) =>
            /\ WithinInterval(entries, heap[r])
            /\ ValueIsLevelAtPosition(entries, heap[r])
            /\ (Len(entries) >= 2 => heap[r].curIndex <= Len(entries) - 2))
  /\ [][CursorMovesForward]_vars

\* an advance that returned normally on a cursor an earlier call had left
\* past the last entry
ReturnedPastEnd ==
  /\ lastCall.op = "advance"
  /\ lastCall.raised = "no"
  /\ isAtEnd(entries, heap[lastCall.ref])

-----------------------------------------------------------------------------
(* Sampling schedule *)

\* the time data bit k of the frame that starts at ts is sampled: ts + (1.5 + k) * P
BitMidpoint(ts, k) == ts + ((3 + 2 * k) * BitPeriod(baudrate)) \div 2

\* sum over the bits below k of level * 2^bit, least-significant bit first
RECURSIVE ByteOnSchedule(_, _)
ByteOnSchedule(ts, k) ==
  IF k = 0
    THEN 0
    ELSE ByteOnSchedule(ts, k - 1) + LevelAt(BitMidpoint(ts, k - 1)) * Pow2(k - 1)

FrameOnSchedule(ts, byte, valid) ==
  /\ byte = ByteOnSchedule(ts, dataBitsPerFrame)
  /\ byte \in 0..(Pow2(dataBitsPerFrame) - 1)
  /\ valid = (LevelAt(BitMidpoint(ts, dataBitsPerFrame)) = 1)

\* the iteration of the last candidate start went through step 5
FrameDone ==
  \/ pc = "emit"
  \/ pc = "seek" /\ starts # <<>> /\ Last(starts).end \in {"yielded", "omitted"}

\* C16: for every yielded frame with start S and bit period P, data bit k is
\* the level of the waveform at S + (1.5 + k) * P, the byte is the sum of
\* level_k * 2^k, valid is (level at S + (1.5 + bits) * P is 1), and the
\* cursor position once the frame is done is S + (bits + 2) * P.
C16_SamplingSchedule ==
  /\ \A k \in 1..Len(frames) : FrameOnSchedule(frames[k][1], frames[k][2], frames[k][3])
  /\ pc = "emit" => FrameOnSchedule(eventStartsAt, data, frameIsValid)
  /\ FrameDone =>
       /\ eventStartsAt = Last(starts).at
       /\ getPosition(heap[c]) = eventStartsAt + FrameLength

\* two frames with different bytes were yielded, after the second of which
\* the cursor rests on the end of its STOP bit
C16_Witness ==
  /\ FrameDone
  /\ Len(frames) = 2
  /\ frames[1][2] = 65
  /\ frames[2][2] = 128
  /\ frames[2][3]
  /\ getPosition(heap[c]) = frames[2][1] + FrameLength

-----------------------------------------------------------------------------
(* Boundaries crossed by advanceUntilChangeTo *)

\* the cursor after went one or two entries on from the cursor before and
\* rests exactly on the timestamp of its entry
OnBoundaryOneOrTwoOn(e, before, after) ==
  /\ after.curIndex - before.curIndex \in {1, 2}
  /\ after.curIndex < Len(e)
  /\ after.curPosition = e[after.curIndex + 1][1]

\* every advanceUntilChangeTo call of the cursor specification that returns
AdvanceUntilCrossesOneOrTwo ==
  [][\A r \in 1..2 :
      (/\ lastCall'.op = "advanceUntilChangeTo"
       /\ lastCall'.ref = r
       /\ lastCall'.raised = "no")
        => OnBoundaryOneOrTwoOn(entries, heap[r], heap'[r])]_vars

\* ts is the timestamp of a stored entry that is neither the first entry nor
\* the tail entry
AtInnerEntry(ts) == \E i \in 2..(Len(entries) - 1) : entries[i][1] = ts

\* C17: advanceUntilChangeTo, when it returns, has increased curIndex by
\* exactly 1 or 2, also when the value was the target before the call, and
\* leaves curPosition on the timestamp of entry curIndex; every start
\* timestamp recognizeUART yields is the timestamp of a stored entry other
\* than the first entry and the tail entry.
C17_SeekLandsOnBoundary ==
  /\ [][(SeekStart /\ pc' = "peek") =>
          /\ OnBoundaryOneOrTwoOn(entries, heap[c], heap'[c])
          /\ getValue(entries, heap[c]) = 0 => heap'[c].curIndex = heap[c].curIndex + 2
          /\ AtInnerEntry(eventStartsAt')]_vars
  /\ [](\A k \in 1..Len(frames) : AtInnerEntry(frames[k][1]))
  /\ [](\A k \in 1..Len(starts) : AtInnerEntry(starts[k].at))

\* the first seek on a line that is at 0 from the first entry: the value was
\* the target already, two boundaries were crossed, and a frame starts there
C17_Witness ==
  /\ Len(entries) >= 4
  /\ entries[1][2] = 0
  /\ Len(starts) = 1
  /\ starts[1].at = entries[3][1]
  /\ Len(frames) = 1
  /\ frames[1][1] = entries[3][1]

-----------------------------------------------------------------------------
(* Channel invariants *)

NoEqualNeighbours(e) == \A i \in 1..(Len(e) - 1) : e[i][2] # e[i + 1][2]

\* an add call on a channel that is not finalized, with the last stored level
\* and a timestamp after the last stored one
AddSameLevelLater ==
  /\ chanCall'.op = "add"
  /\ ~frozen
  /\ Len(entries) > 0
  /\ chanCall'.ts > Last(entries)[1]
  /\ chanCall'.value = Last(entries)[2]

\* C18: while the channel is being built, after any sequence of add calls,
\* the stored timestamps strictly increase and no two consecutive stored
\* entries have equal levels; an add with the last stored level and a later
\* timestamp leaves the entries unchanged.
C18_BuildingInvariant ==
  /\ [](~frozen => (StrictlyIncreasing(entries) /\ NoEqualNeighbours(entries)))
  /\ [][AddSameLevelLater => (entries' = entries /\ chanErr' = "none")]_vars

\* an add that was coalesced away on a channel holding two changes
C18_Witness ==
  /\ ~frozen
  /\ Len(entries) = 2
  /\ chanCall.op = "add"
  /\ chanErr = "none"
  /\ chanCall.ts > Last(entries)[1]
  /\ chanCall.value = Last(entries)[2]

\* the first finishAdding call on a channel that holds entries
FinishNonEmpty ==
  /\ chanCall'.op = "finishAdding"
  /\ ~frozen
  /\ Len(entries) > 0

\* the entries a finishAdding with this tail length leaves: one more entry,
\* the last level repeated tailLength later, or the same entries for 0
WithTail(e, tailLength) ==
  IF tailLength > 0
    THEN [i \in 1..(Len(e) + 1) |->
            IF i <= Len(e) THEN e[i] ELSE <<e[Len(e)][1] + tailLength, e[Len(e)][2]>>]
    ELSE e

\* C19: finishAdding(tail) on a non-empty channel appends exactly one entry
\* (last timestamp + tail, last level) when tail > 0 and nothing when tail is
\* 0, the earlier entries unchanged; from then on the sequence is frozen:
\* every later add or finishAdding call fails or leaves the entries
\* unchanged, so the channel is never extended twice.
C19_FinishFreezes ==
  /\ [][FinishNonEmpty =>
          /\ chanErr' = "none"
          /\ frozen'
          /\ tailUsed' = chanCall'.ts
          /\ entries' = WithTail(entries, chanCall'.ts)]_vars
  /\ [][frozen => (frozen' /\ entries' = entries /\ tailUsed' = tailUsed)]_vars
  /\ [](tailUsed > 0 =>
          /\ Len(entries) >= 2
          /\ NoEqualNeighbours(SubSeq(entries, 1, Len(entries) - 1))
          /\ Last(entries) = <<entries[Len(entries) - 1][1] + tailUsed,
                               entries[Len(entries) - 1][2]>>)

\* a second finishAdding with a tail on a finalized channel failed and left
\* the two real entries and the one tail entry
C19_Witness ==
  /\ frozen
  /\ tailUsed = 1
  /\ chanCall = [op |-> "finishAdding", ts |-> 1, value |-> 0]
  /\ chanErr = "AttributeError"
  /\ Len(entries) = 3

\* an add on a finalized channel that returned normally: same level, later
AddOnFrozenCoalesced ==
  /\ frozen
  /\ chanCall.op = "add"
  /\ chanErr = "none"
  /\ Len(entries) > 0
  /\ chanCall.ts > Last(entries)[1]

\* an add on a finalized channel that would have appended
AddOnFrozenFails ==
  /\ frozen
  /\ chanCall.op = "add"
  /\ chanErr = "AttributeError"

-----------------------------------------------------------------------------
(* Debounce retry *)

\* the entries that are a change to level 0 at a time after t; the tail entry
\* repeats a level and is no change
ChangesToZeroAfter(t) ==
  {i \in 2..(Len(entries) - 1) :
     entries[i][2] = 0 /\ entries[i - 1][2] # 0 /\ entries[i][1] > t}

\* ts is the time of the first of them
FirstChangeToZeroAfter(t, ts) ==
  \E i \in ChangesToZeroAfter(t) :
    /\ entries[i][1] = ts
    /\ \A j \in ChangesToZeroAfter(t) : entries[i][1] <= entries[j][1]

\* half a bit period after the candidate start at ts
HalfBitAfter(ts) == ts + BitPeriod(baudrate) \div 2

\* the retry step: the real cursor ends where the peeking clone is, half a
\* bit period after the candidate, and the loop goes back to the seek
NudgeFollowsPeeker ==
  Nudge =>
    /\ LevelAt(HalfBitAfter(eventStartsAt)) # 0
    /\ heap'[c] = heap[peeker]
    /\ getPosition(heap'[c]) = HalfBitAfter(eventStartsAt)
    /\ pc' = "seek"
    /\ frames' = frames

\* what follows a candidate start that was not stable
RetryFindsNextChange(k) ==
  /\ LevelAt(HalfBitAfter(starts[k].at)) # 0
  /\ NoFrameStartsAt(starts[k].at)
  /\ starts[k].end = "open"
  /\ k < Len(starts) => FirstChangeToZeroAfter(HalfBitAfter(starts[k].at), starts[k + 1].at)
  /\ (k = Len(starts) /\ pc = "done") =>
       (raisedAt = "seek" /\ ChangesToZeroAfter(HalfBitAfter(starts[k].at)) = {})

\* C20: when the level half a bit period after a candidate start G is not 0,
\* the real cursor is moved to exactly G + bitperiod / 2, the position, index
\* and boundary the peeking clone reached; no frame is yielded for G; the next
\* candidate start is the first change to level 0 at a time strictly greater
\* than G + bitperiod / 2, and the run ends at the seek only when there is
\* none.
C20_DebounceRetry ==
  /\ [][NudgeFollowsPeeker]_vars
  /\ [](\A k \in 1..Len(starts) : starts[k].stable = "no" => RetryFindsNextChange(k))
  /\ [](\A k \in 1..Len(starts) :
          (starts[k].stable # "pending") =>
            (starts[k].stable = "no" <=> LevelAt(HalfBitAfter(starts[k].at)) # 0))

\* a candidate was retried, and the first change to 0 after the retry point
\* was taken as the next candidate and framed
C20_Witness ==
  /\ pc = "done"
  /\ input.kind = "toggles"
  /\ Len(starts) = 2
  /\ starts[1].stable = "no"
  /\ starts[2].stable = "yes"
  /\ starts[2].end = "yielded"
  /\ FirstChangeToZeroAfter(HalfBitAfter(starts[1].at), starts[2].at)

\* a retried candidate after which the line never changes to 0 again
RetryThenEnd ==
  /\ pc = "done"
  /\ starts # <<>>
  /\ Last(starts).stable = "no"

-----------------------------------------------------------------------------
(* A cursor after the out-of-range exception *)

\* the step is a call of op on the bound cursor r
CalledOn(r, op) ==
  /\ (r = c \/ r = peeker)
  /\ lastCall'.ref = r
  /\ lastCall'.op = op

\* a call raises out-of-range only by taking curIndex to the end, and a cursor
\* is at the end only after a call on it (or on the cursor it was copied
\* from) raised
RaisedIsAtEnd ==
  /\ lastCall.raised = "OutOfRange" => isAtEnd(entries, heap[lastCall.ref])
  /\ lastCall.op = "init" => ~isAtEnd(entries, heap[lastCall.ref])

AtEndOnlyByRaising ==
  \A r \in 1..2 :
    (CalledOn(r, "advance") \/ CalledOn(r, "advanceUntilChangeTo")) =>
      ((~isAtEnd(entries, heap[r]) /\ isAtEnd(entries, heap'[r]))
         => lastCall'.raised = "OutOfRange")

\* C21: once a call on a cursor has raised out-of-range, isAtEnd() stays true
\* and every later advance(d), d >= 0, and advanceUntilChangeTo on it raises
\* out-of-range as well: no later call returns normally or changes
\* curPosition.
C21_OutOfRangeTerminal ==
  [][\A r \in 1..2 :
      (/\ isAtEnd(entries, heap[r])
       /\ (CalledOn(r, "advance") \/ CalledOn(r, "advanceUntilChangeTo")))
        => /\ lastCall'.raised = "OutOfRange"
           /\ heap'[r].curPosition = heap[r].curPosition
           /\ isAtEnd(entries, heap'[r])]_vars

\* what does hold after the exception: isAtEnd() stays true, and
\* advanceUntilChangeTo raises again without touching the cursor
AtEndStaysAndSeekRaises ==
  [][\A r \in 1..2 :
      (/\ isAtEnd(entries, heap[r])
       /\ (CalledOn(r, "advance") \/ CalledOn(r, "advanceUntilChangeTo")))
        => /\ isAtEnd(entries, heap'[r])
           /\ CalledOn(r, "advanceUntilChangeTo") =>
                (lastCall'.raised = "OutOfRange" /\ heap'[r] = heap[r])]_vars

\* an advance after the exception that returned and moved the position
MovedPastEnd == ReturnedPastEnd /\ lastCall.arg > 0

-----------------------------------------------------------------------------
(* Exhaustion point of advance *)

\* an advance call on a cursor that has not raised, over at least two entries
AdvanceBeforeEnd(r) ==
  /\ Len(entries) >= 2
  /\ ~isAtEnd(entries, heap[r])
  /\ CalledOn(r, "advance")

\* C22: on a finalized channel with at least two entries, advance(d) on a
\* cursor that has not raised raises out-of-range exactly when
\* curPosition + d >= the timestamp of the last entry, leaving curPosition
\* unchanged, and otherwise returns at curPosition + d; a cursor that has not
\* raised has curIndex <= len(entries) - 2.
C22_ExhaustionPoint ==
  /\ [][\A r \in 1..2 :
          AdvanceBeforeEnd(r) =>
            /\ (lastCall'.raised = "OutOfRange")
                 <=> (heap[r].curPosition + lastCall'.arg >= Last(entries)[1])
            /\ lastCall'.raised \in {"no", "OutOfRange"}
            /\ lastCall'.raised = "OutOfRange" =>
                 heap'[r].curPosition = heap[r].curPosition
            /\ lastCall'.raised = "no" =>
                 heap'[r].curPosition = heap[r].curPosition + lastCall'.arg]_vars
  /\ [][AtEndOnlyByRaising]_vars
  /\ [](\A r \in 1..2 :
          ((r = c \/ r = peeker) /\ Len(entries) >= 2 /\ ~isAtEnd(entries, heap[r]))
            => heap[r].curIndex <= Len(entries) - 2)

\* the first raise of a cursor, by an advance that lands exactly on the
\* timestamp of the last entry
C22_Witness ==
  /\ Len(entries) >= 3
  /\ lastCall.op = "advance"
  /\ lastCall.raised = "OutOfRange"
  /\ heap[lastCall.ref].curIndex = Len(entries)
  /\ heap[lastCall.ref].curPosition + lastCall.arg = Last(entries)[1]

\* an advance that returned one tick before the last entry
ReturnedJustBeforeEnd ==
  /\ Len(entries) >= 3
  /\ lastCall.op = "advance"
  /\ lastCall.raised = "no"
  /\ ~isAtEnd(entries, heap[lastCall.ref])
  /\ heap[lastCall.ref].curPosition = Last(entries)[1] - 1
  /\ lastCall.arg > 0

-----------------------------------------------------------------------------
(* Order of the frames *)

\* the stored changes to level 0
ChangesToZero == ChangesToZeroAfter(-1)

\* C23: frames yielded one after the other never overlap: the later one
\* starts at or after the start of the earlier one plus (bits + 2) bit
\* periods; the start timestamps strictly increase, each is the time of a
\* stored change to level 0, and there are at most as many frames as stored
\* changes to level 0.
C23_FramesInOrder ==
  /\ \A k \in 1..(Len(frames) - 1) :
       /\ frames[k + 1][1] >= frames[k][1] + FrameLength
       /\ frames[k + 1][1] > frames[k][1]
  /\ \A k \in 1..Len(frames) :
       \E i \in ChangesToZero : entries[i][1] = frames[k][1]
  /\ Len(frames) <= Cardinality(ChangesToZero)

\* two frames, the second starting one tick after the first one ends
C23_Witness ==
  /\ pc = "done"
  /\ Len(frames) = 2
  /\ frames[2][1] = frames[1][1] + FrameLength + 1
  /\ Cardinality(ChangesToZero) > 2

\* the later frame never starts exactly where the earlier one ends
NextFrameStrictlyAfterEnd ==
  \A k \in 1..(Len(frames) - 1) : frames[k + 1][1] > frames[k][1] + FrameLength

\* a START edge inside the STOP bit of the frame before it is passed over
C23_EarlyStartPassedOver ==
  /\ pc = "done"
  /\ input.kind = "early"
  /\ frames # <<>>
  /\ \E i \in ChangesToZero :
       /\ entries[i][1] > frames[1][1] + FrameLength - BitPeriod(baudrate)
       /\ entries[i][1] < frames[1][1] + FrameLength
       /\ NoFrameStartsAt(entries[i][1])

-----------------------------------------------------------------------------
(* Partial frames *)

\* timestamp of the last entry, the tail entry of a channel finished with a
\* tail length above zero
TailTimestamp == Last(entries)[1]

\* the frame that starts at ts ends before the tail entry
EndsBeforeTail(ts) == ts + FrameLength < TailTimestamp

\* C24: a frame with start S is yielded only if S + (bits + 2) * P is
\* strictly less than the timestamp of the tail entry; an out-of-range raised
\* at any step after the start was confirmed, the final half-period advance
\* included, drops that frame and ends the sequence.
C24_NoPartialFrame ==
  /\ \A k \in 1..Len(frames) : EndsBeforeTail(frames[k][1])
  /\ \A k \in 1..Len(starts) :
       /\ starts[k].end = "raised" =>
            /\ k = Len(starts)
            /\ starts[k].stable = "yes"
            /\ ~EndsBeforeTail(starts[k].at)
            /\ NoFrameStartsAt(starts[k].at)
            /\ pc = "done"
            /\ outcome = "StopIteration"
            /\ raisedAt \in {"confirm", "sample", "stop"}
       /\ (starts[k].stable = "yes" /\ ~EndsBeforeTail(starts[k].at)) =>
            /\ starts[k].end \in {"open", "raised"}
            /\ NoFrameStartsAt(starts[k].at)
            /\ pc = "done" => starts[k].end = "raised"

\* a frame was yielded, and a later one whose start was confirmed was dropped
\* when the data ran out
C24_Witness ==
  /\ pc = "done"
  /\ frames # <<>>
  /\ Last(starts).stable = "yes"
  /\ Last(starts).end = "raised"
  /\ Last(starts).at > Last(frames)[1]

\* a frame dropped by the final half-period advance, after the data bits and
\* the stop bit were read: it ends exactly on the tail entry
DroppedAtEndOfStop ==
  /\ raisedAt = "stop"
  /\ x = dataBitsPerFrame
  /\ Last(starts).end = "raised"
  /\ Last(starts).at + FrameLength = TailTimestamp

(***************************************************************************)
(* generate-call-sequence/generate-call-sequence.py: NestedBuilder.        *)
(*                                                                         *)
(* The specification file of the modelled runs is                          *)
(*     A, 1, 2, X      B, 3, 4, Y      C, 5, 6      M, 7                    *)
(* (label, enter code, return code, context): two calls that open a        *)
(* context of their own, one call that inherits the current context and    *)
(* one mark.  Timestamps are whole numbers; the labels are compared as     *)
(* Python compares the strings.                                            *)
(***************************************************************************)
ACTION_ENTER == 0
ACTION_RETURN == 1
ACTION_MARK == 2

\* self.codeMap after __init__: code -> (action, label, context)
codeMap ==
  (1 :> [action |-> ACTION_ENTER, label |-> "A", context |-> "X"]) @@
  (2 :> [action |-> ACTION_RETURN, label |-> "A", context |-> "X"]) @@
  (3 :> [action |-> ACTION_ENTER, label |-> "B", context |-> "Y"]) @@
  (4 :> [action |-> ACTION_RETURN, label |-> "B", context |-> "Y"]) @@
  (5 :> [action |-> ACTION_ENTER, label |-> "C", context |-> None]) @@
  (6 :> [action |-> ACTION_RETURN, label |-> "C", context |-> None]) @@
  (7 :> [action |-> ACTION_MARK, label |-> "M", context |-> None])

\* a code the specification file does not define
UnknownCode == Cardinality(DOMAIN codeMap) + 1

\* the names of the specification file in the order of Python's string
\* comparison
Alphabet == <<"A", "B", "C", "M", "X", "Y">>

Rank(name) == CHOOSE i \in 1..Len(Alphabet) : Alphabet[i] = name

\* (u > v) - (u < v), the replacement the code uses for cmp(u, v)
Cmp(u, v) == IF u > v THEN 1 ELSE IF u < v THEN 0 - 1 ELSE 0

\* An emitted entry (startTS, label, duration | None).  The label is kept as
\* the pair the code splits it into at the colon: key is "ectx", "sctx" or
\* None (no colon), name is the rest.  duration is <<d>>, or <<>> for None.
Plain(ts, label, duration) ==
  [ts |-> ts, key |-> None, name |-> label, duration |-> duration]

Marker(ts, key, context) ==
  [ts |-> ts, key |-> key, name |-> context, duration |-> <<>>]

\* the builder's fields an operation works on
Builder(st, em, cc) == [stack |-> st, emit |-> em, currentContext |-> cc]

\* trackContext(ts, newContext)
trackContext(b, ts, newContext) ==
  IF newContext = b.currentContext
  THEN b
  ELSE LET ended == IF b.currentContext # None
                    THEN Append(b.emit, Marker(ts, "ectx", b.currentContext))
                    ELSE b.emit
           started == IF newContext # None
                      THEN Append(ended, Marker(ts, "sctx", newContext))
                      ELSE ended
       IN  Builder(b.stack, started, newContext)

\* unwindOne(ts), on a stack that is not empty
unwindOne(b, ts) ==
  LET top == Last(b.stack)
      rest == SubSeq(b.stack, 1, Len(b.stack) - 1)
      newContext == IF Len(rest) > 0 THEN Last(rest).context ELSE None
  IN  trackContext(Builder(rest,
                           Append(b.emit,
                                  Plain(top.startTS, top.label, <<ts - top.startTS>>)),
                           b.currentContext),
                   ts, newContext)

\* The loop body of resolveActions on one action.  The result is the builder
\* and whether the body raised: the print in the implicit-unwinding loop
\* names a variable, duration, that resolveActions never binds, so the first
\* pass through that loop ends in a NameError after its unwindOne.
ResolveOne(b, a) ==
  LET ts == a.ts
      label == a.ev.label
  IN  IF a.ev.action = ACTION_ENTER
      THEN LET context == IF a.ev.context = None THEN b.currentContext
                          ELSE a.ev.context
               t == trackContext(b, ts, context)
           IN  [b |-> Builder(Append(t.stack,
                                     [startTS |-> ts, label |-> label,
                                      context |-> context]),
                              t.emit, t.currentContext),
                raised |-> FALSE]
      ELSE IF a.ev.action = ACTION_MARK
      THEN [b |-> Builder(b.stack, Append(b.emit, Plain(ts, label, <<>>)),
                          b.currentContext),
            raised |-> FALSE]
      ELSE IF Len(b.stack) > 0 /\ Last(b.stack).label # label
      THEN [b |-> unwindOne(b, ts), raised |-> TRUE]
      ELSE IF Len(b.stack) = 0
      THEN [b |-> b, raised |-> FALSE]
      ELSE [b |-> unwindOne(b, ts), raised |-> FALSE]

\* for ts, ev in self.actions, from action i on: the builder, the number of
\* the action the loop stopped in (Len(acts) + 1 when it ran to its end)
RECURSIVE ResolveLoop(_, _, _)
ResolveLoop(b, acts, i) ==
  IF i > Len(acts)
  THEN [b |-> b, at |-> i, raised |-> FALSE]
  ELSE LET r == ResolveOne(b, acts[i])
       IN  IF r.raised
           THEN [b |-> r.b, at |-> i, raised |-> TRUE]
           ELSE ResolveLoop(r.b, acts, i + 1)

\* unwind remaining entries, at the last timestamp of the events
RECURSIVE UnwindRemaining(_, _)
UnwindRemaining(b, ts) ==
  IF Len(b.stack) = 0 THEN b ELSE UnwindRemaining(unwindOne(b, ts), ts)

\* the table srules
srules(akey, bkey) ==
  CASE akey = None /\ bkey = None -> 0
    [] akey = None /\ bkey = "ectx" -> 0 - 1
    [] akey = None /\ bkey = "sctx" -> 1
    [] akey = "ectx" /\ bkey = None -> 1
    [] akey = "ectx" /\ bkey = "ectx" -> 0
    [] akey = "ectx" /\ bkey = "sctx" -> 0 - 1
    [] akey = "sctx" /\ bkey = None -> 0 - 1
    [] akey = "sctx" /\ bkey = "ectx" -> 1
    [] akey = "sctx" /\ bkey = "sctx" -> 0

\* priorityCmp(a, b).  When the table gives 0 the keys are equal, so the
\* comparison of the whole labels is the comparison of the names.
priorityCmp(a, b) ==
  LET byTs == Cmp(a.ts, b.ts)
      cr == srules(a.key, b.key)
  IN  IF byTs # 0 THEN byTs
      ELSE IF cr = 0 THEN Cmp(Rank(a.name), Rank(b.name))
      ELSE cr

\* K.__lt__ of cmp_to_key, the only comparison list.sort makes
Lt(a, b) == priorityCmp(a, b) < 0

\* list.sort on a list shorter than 64 entries, as CPython does it: the
\* leading run is found (and reversed when it strictly descends), then every
\* later entry is inserted into the sorted prefix by binary search.
RECURSIVE RunEnd(_, _, _)
RunEnd(s, i, descending) ==
  IF i = Len(s) THEN i
  ELSE IF Lt(s[i + 1], s[i]) = descending THEN RunEnd(s, i + 1, descending)
  ELSE i

ReverseRun(s, n) == [i \in 1..Len(s) |-> IF i <= n THEN s[n + 1 - i] ELSE s[i]]

RECURSIVE InsertionPoint(_, _, _, _)
InsertionPoint(s, pivot, l, r) ==
  LET p == l + ((r - l) \div 2)
      l2 == IF Lt(pivot, s[p]) THEN l ELSE p + 1
      r2 == IF Lt(pivot, s[p]) THEN p ELSE r
  IN  IF l2 < r2 THEN InsertionPoint(s, pivot, l2, r2) ELSE l2

RECURSIVE BinarySort(_, _)
BinarySort(s, start) ==
  IF start > Len(s) THEN s
  ELSE LET l == InsertionPoint(s, s[start], 1, start)
       IN  BinarySort(SubSeq(s, 1, l - 1) \o <<s[start]>> \o
                      SubSeq(s, l, start - 1) \o SubSeq(s, start + 1, Len(s)),
                      start + 1)

ListSort(s) ==
  IF Len(s) < 2 THEN s
  ELSE LET descending == Lt(s[2], s[1])
           n == RunEnd(s, 2, descending)
       IN  BinarySort(IF descending THEN ReverseRun(s, n) ELSE s, n + 1)

\* The timestamp of the CSV line read last; main stops at a line whose
\* timestamp goes backwards.
PrevTS == IF Len(actions) = 0 THEN 0 ELSE Last(actions).ts

BuilderInit ==
  /\ entries = <<>>
  /\ frozen = FALSE
  /\ tailUsed = -1
  /\ chanErr = "none"
  /\ chanCall = NoChanCall
  /\ CursorIdle
  /\ UartIdle
  /\ input = NoInput
  /\ actions = <<>>
  /\ stack = <<>>
  /\ emit = <<>>
  /\ currentContext = None
  /\ nextAction = 0
  /\ resolving = "adding"

\* addEvent(ts, code), called by main for every line of the CSV file; main
\* exits on a code addEvent does not recognize.
AddEvent ==
  \E ts \in PrevTS..(PrevTS + 1), code \in DOMAIN codeMap \cup {UnknownCode} :
    /\ resolving = "adding"
    /\ Len(actions) < MaxActions
    /\ IF code \notin DOMAIN codeMap
       THEN /\ resolving' = "unknown code"
            /\ actions' = actions
       ELSE /\ actions' = Append(actions, [ts |-> ts, ev |-> codeMap[code]])
            /\ resolving' = resolving
    /\ UNCHANGED <<stack, emit, currentContext, nextAction>>
    /\ UNCHANGED <<chanVars, cursorVars, uartVars, input>>

\* resolveActions(), with its final unwinding and its sort
ResolveActions ==
  /\ resolving = "adding"
  /\ IF Len(actions) = 0
     THEN /\ resolving' = "returned"
          /\ UNCHANGED <<stack, emit, currentContext, nextAction>>
     ELSE LET loop == ResolveLoop(Builder(stack, emit, None), actions, 1)
              final == UnwindRemaining(loop.b, Last(actions).ts)
          IN  /\ nextAction' = loop.at
              /\ IF loop.raised
                 THEN /\ resolving' = "NameError"
                      /\ stack' = loop.b.stack
                      /\ emit' = loop.b.emit
                      /\ currentContext' = loop.b.currentContext
                 ELSE /\ resolving' = "returned"
                      /\ stack' = final.stack
                      /\ emit' = ListSort(final.emit)
                      /\ currentContext' = final.currentContext
  /\ UNCHANGED actions
  /\ UNCHANGED <<chanVars, cursorVars, uartVars, input>>

BuilderNext ==
  \/ AddEvent
  \/ ResolveActions

SpecBuilder == BuilderInit /\ [][BuilderNext]_vars

(***************************************************************************)
(* C25: implicit unwinding                                                 *)
(***************************************************************************)
\* The handling of a RETURN as the claim describes it: unwind every entry
\* above the nearest one with the label, then that entry; the whole stack
\* when no entry has the label.
RECURSIVE UnwindUntilLabel(_, _, _)
UnwindUntilLabel(b, ts, label) ==
  IF Len(b.stack) = 0 THEN b
  ELSE IF Last(b.stack).label = label THEN unwindOne(b, ts)
  ELSE UnwindUntilLabel(unwindOne(b, ts), ts, label)

\* the loop over the actions with every RETURN handled that way
RECURSIVE UnwindingLoop(_, _, _)
UnwindingLoop(b, acts, i) ==
  IF i > Len(acts) THEN b
  ELSE UnwindingLoop(IF acts[i].ev.action = ACTION_RETURN
                     THEN UnwindUntilLabel(b, acts[i].ts, acts[i].ev.label)
                     ELSE ResolveOne(b, acts[i]).b,
                     acts, i + 1)

UnwindingResult ==
  UnwindRemaining(UnwindingLoop(Builder(<<>>, <<>>, None), actions, 1),
                  Last(actions).ts)

Occurrences(s, e) == Cardinality({i \in 1..Len(s) : s[i] = e})

SameEntries(s, t) ==
  /\ Len(s) = Len(t)
  /\ \A i \in 1..Len(s) : Occurrences(s, s[i]) = Occurrences(t, s[i])

Enters == {i \in 1..Len(actions) : actions[i].ev.action = ACTION_ENTER}

DurationEntries == {i \in 1..Len(emit) : emit[i].duration # <<>>}

\* some RETURN of the input meets a stack whose top has another label
ImplicitReturn ==
  \E i \in 1..Len(actions) :
    LET before == UnwindingLoop(Builder(<<>>, <<>>, None),
                                SubSeq(actions, 1, i - 1), 1)
    IN  /\ actions[i].ev.action = ACTION_RETURN
        /\ Len(before.stack) > 0
        /\ Last(before.stack).label # actions[i].ev.label

Resolved == resolving \in {"returned", "NameError"} /\ Len(actions) > 0

\* C25: resolveActions handles every action and returns, also when a RETURN
\* does not match the top of the stack: such a RETURN unwinds and emits every
\* entry above the nearest entry with its label and then that entry (the
\* whole stack when there is none), and the loop goes on.  After it the stack
\* is empty and every ENTER has exactly one emitted duration entry.
C25_ImplicitUnwinding ==
  Resolved =>
    /\ resolving = "returned"
    /\ nextAction = Len(actions) + 1
    /\ stack = <<>>
    /\ Cardinality(DurationEntries) = Cardinality(Enters)
    /\ SameEntries(emit, UnwindingResult.emit)

\* What holds: a run without a mismatched RETURN ends as the claim says, and
\* a run with one ends in the NameError at the first of them.
ReturnedAsClaimed ==
  Resolved =>
    /\ (resolving = "returned") = ~ImplicitReturn
    /\ resolving = "returned" =>
         /\ nextAction = Len(actions) + 1
         /\ stack = <<>>
         /\ Cardinality(DurationEntries) = Cardinality(Enters)
         /\ SameEntries(emit, UnwindingResult.emit)
    /\ resolving = "NameError" =>
         /\ actions[nextAction].ev.action = ACTION_RETURN
         /\ Cardinality(DurationEntries) + Len(stack) =
              Cardinality({i \in Enters : i < nextAction})
         /\ Cardinality(DurationEntries) > 0

\* ENTER A, ENTER B, RETURN A: B is unwound, then the NameError; A stays on
\* the stack and has no duration entry.
ImplicitUnwindRaised ==
  /\ resolving = "NameError"
  /\ Len(actions) = 3
  /\ nextAction = 3
  /\ actions[1].ev = codeMap[1]
  /\ actions[2].ev = codeMap[3]
  /\ actions[3].ev = codeMap[2]
  /\ Len(stack) = 1
  /\ stack[1].label = "A"
  /\ Cardinality(DurationEntries) = 1

\* a RETURN for a label that was never entered, on an empty stack, is passed
\* over with a warning
ReturnOnEmptyStackPassed ==
  /\ resolving = "returned"
  /\ Len(actions) > 0
  /\ actions[1].ev.action = ACTION_RETURN

(***************************************************************************)
(* C26: order of the emitted entries                                       *)
(***************************************************************************)
Sorted == resolving = "returned" /\ Len(actions) > 0

Emitted == {emit[i] : i \in 1..Len(emit)}

TimestampsNonDecreasing ==
  \A i, j \in 1..Len(emit) : i < j => emit[i].ts <= emit[j].ts

\* among the entries of one timestamp, every entry with key first comes
\* before every entry with key second
KeyBefore(first, second) ==
  \A i, j \in 1..Len(emit) :
    (emit[i].ts = emit[j].ts /\ emit[i].key = first /\ emit[j].key = second)
      => i < j

EndBeforeStart == KeyBefore("ectx", "sctx")
PlainBeforeEnd == KeyBefore(None, "ectx")
StartBeforePlain == KeyBefore("sctx", None)

Antisymmetric ==
  \A a, b \in Emitted : priorityCmp(a, b) = 0 - priorityCmp(b, a)

Transitive ==
  \A a, b, d \in Emitted :
    (priorityCmp(a, b) < 0 /\ priorityCmp(b, d) < 0) => priorityCmp(a, d) < 0

\* C26: after resolveActions has sorted emit, timestamps do not decrease and,
\* among entries of one timestamp, every context end comes before every
\* context start, every context end comes after every plain entry and every
\* context start comes before every plain entry; priorityCmp is antisymmetric
\* and transitive on the emitted entries.
C26_EmitOrdering ==
  Sorted =>
    /\ TimestampsNonDecreasing
    /\ EndBeforeStart
    /\ PlainBeforeEnd
    /\ StartBeforePlain
    /\ Antisymmetric
    /\ Transitive

\* What holds of the sorted list.
SortedByTimestamp == Sorted => (TimestampsNonDecreasing /\ Antisymmetric)

\* a context start, a plain entry and a context end at one timestamp
ThreeKindsAt(ts) ==
  \A k \in {None, "ectx", "sctx"} : \E e \in Emitted : e.ts = ts /\ e.key = k

\* The three rules ask for start < plain < end < start: no order of a
\* timestamp that has all three kinds satisfies them, and priorityCmp, which
\* encodes them, is not transitive there.
RulesAreCyclic ==
  \A i \in 1..Len(emit) :
    (Sorted /\ ThreeKindsAt(emit[i].ts)) =>
       (~Transitive /\ ~(EndBeforeStart /\ PlainBeforeEnd /\ StartBeforePlain))

\* ENTER A at 0, ENTER B at 1, RETURN B at 2: the switch from context X to
\* context Y and the entry of B share timestamp 1, and the end of X is sorted
\* before the plain entry B.
ContextSwitchAtEnter ==
  /\ Sorted
  /\ Len(actions) = 3
  /\ actions[1] = [ts |-> 0, ev |-> codeMap[1]]
  /\ actions[2] = [ts |-> 1, ev |-> codeMap[3]]
  /\ actions[3] = [ts |-> 2, ev |-> codeMap[4]]
  /\ ThreeKindsAt(1)
  /\ ~PlainBeforeEnd
  /\ ~Transitive

====
